---- MODULE Spec2Model ----
(***************************************************************************)
(* DepsTree (smbwain/deps-tree): dependency-ordered init / deinit of a set *)
(* of modules.  One action of the model is one run-to-completion job of    *)
(* the JavaScript event loop: a public call (init(), deinit()), the        *)
(* microtask queued by init(), or the continuation of an awaited module    *)
(* operation.  A module operation that throws synchronously is handled in  *)
(* the job that invoked it, exactly as the try/catch around the await does.*)
(***************************************************************************)
EXTENDS Integers, Sequences, FiniteSets, TLC

\* Number of modules of the module sets handed to the constructor (names are
\* 1..NumModules, in insertion order of the modules object).
NumModules == 3

\* the module names the descriptions are drawn from
Names == 1..NumModules

\* Number of module operations that may throw synchronously within one job.
MaxSyncThrows == 1

\* enum State
States == {"off", "initializing", "up", "deinitializing", "down", "error"}

VARIABLES
    state,               \* DepsTree.state
    modulesToLoad,       \* DepsTree._modulesToLoad
    modulesToUnload,     \* DepsTree._modulesToUnload
    errors,              \* DepsTree.errors (the failing module of each error)
    dependencies,        \* modules[name].dependencies
    dependants,          \* modules[name].dependants
    needed,              \* modules[name].needed
    mstate,              \* modules[name].state
    dependenciesToLoad,  \* modules[name].dependenciesToLoad
    dependantsToUnload,  \* modules[name].dependantsToUnload
    initDefer,           \* DepsTree._initDefer: "none" | "pending" | "resolved"
    deinitDefer,         \* DepsTree._deinitDefer: "none" | "pending" | "resolved"
    initTask,            \* the microtask queued by init() has not run yet
    initRunning,         \* per module: awaited init operations not yet settled
    deinitRunning,       \* per module: awaited deinit operations not yet settled
    moduleLog,           \* per module: the 'module-state' notifications emitted
    stateLog,            \* the 'state' notifications emitted
    started,             \* number of 'started' notifications
    stopped,             \* number of 'stopped' notifications
    initEarly,           \* modules whose init was invoked while a dependency was not up
    deinitEarly,         \* modules whose deinit was invoked before an up dependant finished
    stateErrors,         \* modules whose completion threw 'State error'
    initDone,            \* modules whose init operation fulfilled
    failedIn,            \* per module: the tree state in which its init failed
    callerTeardown,      \* the tree state in which a caller's deinit() began the teardown
    returned             \* the latest public call and what it returned

\* the names of the modules of the tree (the keys of this.modules)
Modules == DOMAIN dependencies

vars == <<state, modulesToLoad, modulesToUnload, errors, dependencies, dependants,
          needed, mstate, dependenciesToLoad, dependantsToUnload, initDefer,
          deinitDefer, initTask, initRunning, deinitRunning, moduleLog, stateLog,
          started, stopped, initEarly, deinitEarly, stateErrors, initDone,
          failedIn, callerTeardown, returned>>

----------------------------------------------------------------------------
\* Helpers on sequences and sets

RECURSIVE SetToSeq(_)
\* the elements of a set of module names, in insertion (numeric) order
SetToSeq(S) ==
    IF S = {} THEN <<>>
    ELSE LET m == CHOOSE x \in S : \A y \in S : x <= y
         IN <<m>> \o SetToSeq(S \ {m})

Range(q) == {q[i] : i \in 1..Len(q)}

Count(q, v) == Cardinality({i \in 1..Len(q) : q[i] = v})

----------------------------------------------------------------------------
\* Constructor

RECURSIVE Reach(_, _, _)
\* modules reachable from the set S along dependency edges of deps
Reach(deps, S, n) ==
    IF n = 0 THEN S
    ELSE Reach(deps, S \cup UNION {deps[m] : m \in S}, n - 1)

Acyclic(deps) ==
    \A m \in DOMAIN deps : m \notin Reach(deps, deps[m], Cardinality(DOMAIN deps))

\* the module descriptions the constructor may be given: deps of every module
\* (all names exist, no cycle)
Descriptions == {deps \in [Names -> SUBSET Names] : Acyclic(deps)}

\* constructor, second loop: dependency.dependants.push(moduleName)
Dependants(deps) ==
    [d \in DOMAIN deps |-> SetToSeq({m \in DOMAIN deps : d \in deps[m]})]

RECURSIVE fillNeeded(_, _, _)
\* fillNeeded(module): mark the module, then every dependency not yet marked
RECURSIVE fillNeededDeps(_, _, _, _)
fillNeededDeps(deps, nd, name, i) ==
    IF i > Len(deps[name]) THEN nd
    ELSE LET d == deps[name][i]
         IN fillNeededDeps(deps,
                           IF nd[d] THEN nd ELSE fillNeeded(deps, nd, d),
                           name, i + 1)

\* fillNeeded without the recursion: the module and its direct dependencies
\* are marked
fillNeededShallow(deps, nd, name) ==
    [m \in DOMAIN nd |-> nd[m] \/ m = name \/ m \in Range(deps[name])]

fillNeeded(deps, nd, name) ==
    fillNeededDeps(deps, [nd EXCEPT ![name] = TRUE], name, 1)

RECURSIVE NeededClosure(_, _, _)
\* constructor, last loop: for every module already needed, fillNeeded
NeededClosure(deps, nd, m) ==
    IF m > Len(deps) THEN nd
    ELSE NeededClosure(deps, IF nd[m] THEN fillNeeded(deps, nd, m) ELSE nd, m + 1)

----------------------------------------------------------------------------
\* The object as one record, so that a handler and the calls it makes can be
\* composed sequentially inside one job.

This ==
    [state |-> state, modulesToLoad |-> modulesToLoad,
     modulesToUnload |-> modulesToUnload, errors |-> errors,
     mstate |-> mstate, dependenciesToLoad |-> dependenciesToLoad,
     dependantsToUnload |-> dependantsToUnload, initDefer |-> initDefer,
     deinitDefer |-> deinitDefer, initTask |-> initTask,
     initRunning |-> initRunning, deinitRunning |-> deinitRunning,
     moduleLog |-> moduleLog, stateLog |-> stateLog, started |-> started,
     stopped |-> stopped, initEarly |-> initEarly, deinitEarly |-> deinitEarly,
     stateErrors |-> stateErrors, initDone |-> initDone, failedIn |-> failedIn,
     callerTeardown |-> callerTeardown, returned |-> returned]

Commit(t) ==
    /\ state' = t.state
    /\ modulesToLoad' = t.modulesToLoad
    /\ modulesToUnload' = t.modulesToUnload
    /\ errors' = t.errors
    /\ mstate' = t.mstate
    /\ dependenciesToLoad' = t.dependenciesToLoad
    /\ dependantsToUnload' = t.dependantsToUnload
    /\ initDefer' = t.initDefer
    /\ deinitDefer' = t.deinitDefer
    /\ initTask' = t.initTask
    /\ initRunning' = t.initRunning
    /\ deinitRunning' = t.deinitRunning
    /\ moduleLog' = t.moduleLog
    /\ stateLog' = t.stateLog
    /\ started' = t.started
    /\ stopped' = t.stopped
    /\ initEarly' = t.initEarly
    /\ deinitEarly' = t.deinitEarly
    /\ stateErrors' = t.stateErrors
    /\ initDone' = t.initDone
    /\ failedIn' = t.failedIn
    /\ callerTeardown' = t.callerTeardown
    /\ returned' = t.returned
    /\ UNCHANGED <<dependencies, dependants, needed>>

\* What the caller-supplied operations do when invoked in the current job:
\* thr.init / thr.deinit are the modules whose init / deinit throws
\* synchronously; the others return and are awaited.
Throws ==
    {thr \in [init : SUBSET Modules, deinit : SUBSET Modules] :
        Cardinality(thr.init) + Cardinality(thr.deinit) <= MaxSyncThrows}

\* number of times the module's init / deinit operation has been invoked
\* (each invocation is preceded by exactly one notification)
InitCalls(t, name) == Count(t.moduleLog[name], "initializing")
DeinitCalls(t, name) == Count(t.moduleLog[name], "deinitializing")

\* _changeModuleState
changeModuleState(t, name, st) ==
    [t EXCEPT !.mstate[name] = st, !.moduleLog[name] = Append(@, st)]

\* _changeState
changeState(t, st) ==
    [t EXCEPT !.state = st, !.stateLog = Append(@, st)]

RECURSIVE deinit(_, _)
RECURSIVE deinitModule(_, _, _)
RECURSIVE deinitLoop(_, _, _)
RECURSIVE deinitDeps(_, _, _, _)

\* _error without its call of deinit(): the error is recorded only
errorWithoutDeinit(t, name, thr) ==
    [t EXCEPT !.errors = Append(@, name)]

\* _error: record the error, then deinit()
error(t, name, thr) ==
    deinit([t EXCEPT !.errors = Append(@, name)], thr)

\* _deinitModule, after the await (or after a synchronous throw): the
\* countdown of _modulesToUnload and the cascade to the dependencies
deinitSettled(t, name, thr) ==
    LET t1 == [t EXCEPT !.modulesToUnload = @ - 1]
    IN IF t1.modulesToUnload <= 0
       THEN LET t2 == changeState([t1 EXCEPT !.deinitDefer = "resolved"], "down")
            IN [t2 EXCEPT !.stopped = @ + 1]
       ELSE deinitDeps(t1, name, 1, thr)

\* _deinitModule, the loop over module.dependencies
deinitDeps(t, name, i, thr) ==
    IF i > Len(dependencies[name]) THEN t
    ELSE LET d == dependencies[name][i]
             t1 == [t EXCEPT !.dependantsToUnload[d] = @ - 1]
         IN deinitDeps(IF t1.dependantsToUnload[d] <= 0
                       THEN deinitModule(t1, d, thr) ELSE t1,
                       name, i + 1, thr)

\* _deinitModule, the catch branch of the awaited deinit operation
deinitFailed(t, name, thr) ==
    error(changeModuleState(t, name, "error"), name, thr)

\* a dependant of the module came up and has not finished its deinit
UnfinishedDependants(t, name) ==
    {d \in Range(dependants[name]) :
        /\ "up" \in Range(t.moduleLog[d])
        /\ \/ DeinitCalls(t, d) = 0
           \/ t.deinitRunning[d] > 0}

\* _deinitModule, up to the await of module.deinit()
deinitModule(t, name, thr) ==
    LET t1 == changeModuleState(t, name, "deinitializing")
        t2 == [t1 EXCEPT !.deinitEarly =
                   IF UnfinishedDependants(t, name) = {} THEN @ ELSE @ \cup {name}]
    IN IF name \in thr.deinit
       THEN deinitSettled(deinitFailed(t2, name, thr), name, thr)
       ELSE [t2 EXCEPT !.deinitRunning[name] = @ + 1]

\* deinit(), the loop over this.modules
deinitLoop(t, m, thr) ==
    IF m > Len(dependencies) THEN t
    ELSE deinitLoop(IF t.mstate[m] = "up" /\ t.dependantsToUnload[m] = 0
                    THEN deinitModule(t, m, thr) ELSE t,
                    m + 1, thr)

\* deinit() without its case State.off: a tree that is off is torn down like
\* one that is initializing or up
deinitWithoutOffCase(t, thr) ==
    CASE t.state \in {"error", "down"} -> t
      [] t.state \in {"off", "initializing", "up"} ->
            deinitLoop([changeState(t, "deinitializing")
                           EXCEPT !.deinitDefer = "pending"], 1, thr)
      [] t.state = "deinitializing" -> t

\* deinit()
deinit(t, thr) ==
    CASE t.state = "off" -> changeState(t, "down")
      [] t.state \in {"error", "down"} -> t
      [] t.state \in {"initializing", "up"} ->
            deinitLoop([changeState(t, "deinitializing")
                           EXCEPT !.deinitDefer = "pending"], 1, thr)
      [] t.state = "deinitializing" -> t

RECURSIVE initDependants(_, _, _, _)

\* the catch branch of _initModule rejecting the handle of init() as well
initFailedRejectsHandle(t, name, thr) ==
    error(changeModuleState([t EXCEPT !.modulesToUnload = @ - 1,
                                      !.failedIn[name] = t.state,
                                      !.initDefer = "rejected"],
                            name, "error"),
          name, thr)

\* _initModule, the catch branch of the awaited init operation
initFailed(t, name, thr) ==
    error(changeModuleState([t EXCEPT !.modulesToUnload = @ - 1,
                                      !.failedIn[name] = t.state],
                            name, "error"),
          name, thr)

\* _initModule, up to the await of module.init(dependenciesObject)
initModule(t, name, thr) ==
    LET t1 == changeModuleState(t, name, "initializing")
        t2 == [t1 EXCEPT !.modulesToUnload = @ + 1,
                         !.initEarly =
                            IF \A d \in Range(dependencies[name]) : t.mstate[d] = "up"
                            THEN @ ELSE @ \cup {name}]
    IN IF name \in thr.init
       THEN initFailed(t2, name, thr)
       ELSE [t2 EXCEPT !.initRunning[name] = @ + 1]

RECURSIVE countDependants(_, _, _)
\* _moduleInited: dependantsToUnload++ for every dependency
countDependants(t, name, i) ==
    IF i > Len(dependencies[name]) THEN t
    ELSE countDependants(
            [t EXCEPT !.dependantsToUnload[dependencies[name][i]] = @ + 1],
            name, i + 1)

\* the loop over module.dependants ended after the first dependant it starts
initDependantsOneAtATime(t, name, i, thr) ==
    IF i > Len(dependants[name]) THEN t
    ELSE LET d == dependants[name][i]
             t1 == [t EXCEPT !.dependenciesToLoad[d] = @ - 1]
         IN IF t1.dependenciesToLoad[d] = 0
            THEN initModule(t1, d, thr)
            ELSE initDependants(t1, name, i + 1, thr)

\* _moduleInited, the loop over module.dependants
initDependants(t, name, i, thr) ==
    IF i > Len(dependants[name]) THEN t
    ELSE LET d == dependants[name][i]
             t1 == [t EXCEPT !.dependenciesToLoad[d] = @ - 1]
         IN initDependants(IF t1.dependenciesToLoad[d] = 0
                           THEN initModule(t1, d, thr) ELSE t1,
                           name, i + 1, thr)

\* _moduleInited without its loop over module.dependants
moduleInitedNoCascade(t, name, thr) ==
    CASE t.state = "initializing" ->
            LET t1 == countDependants(changeModuleState(t, name, "up"), name, 1)
                t2 == [t1 EXCEPT !.modulesToLoad = @ - 1]
            IN IF t2.modulesToLoad = 0
               THEN LET t3 == changeState([t2 EXCEPT !.initDefer = "resolved"], "up")
                    IN [t3 EXCEPT !.started = @ + 1]
               ELSE t2
      [] t.state = "deinitializing" -> deinitModule(t, name, thr)
      [] OTHER -> [t EXCEPT !.stateErrors = @ \cup {name}]

\* _moduleInited
moduleInited(t, name, thr) ==
    CASE t.state = "initializing" ->
            LET t1 == countDependants(changeModuleState(t, name, "up"), name, 1)
                t2 == [t1 EXCEPT !.modulesToLoad = @ - 1]
            IN IF t2.modulesToLoad = 0
               THEN LET t3 == changeState([t2 EXCEPT !.initDefer = "resolved"], "up")
                    IN [t3 EXCEPT !.started = @ + 1]
               ELSE initDependants(t2, name, 1, thr)
      [] t.state = "deinitializing" -> deinitModule(t, name, thr)
      [] OTHER -> [t EXCEPT !.stateErrors = @ \cup {name}]

RECURSIVE initLoop(_, _, _)
\* the loop of init() with the readiness test (!module.dependenciesToLoad)
\* left out: every needed module is started at once
initLoopNoReadinessTest(t, m, thr) ==
    IF m > Len(dependencies) THEN t
    ELSE initLoop(IF needed[m]
                  THEN initModule([t EXCEPT !.modulesToLoad = @ + 1], m, thr)
                  ELSE t,
                  m + 1, thr)

\* init(), the loop of the queued microtask over this.modules
initLoop(t, m, thr) ==
    IF m > Len(dependencies) THEN t
    ELSE initLoop(IF needed[m]
                  THEN LET t1 == [t EXCEPT !.modulesToLoad = @ + 1]
                       IN IF t1.dependenciesToLoad[m] = 0
                          THEN initModule(t1, m, thr) ELSE t1
                  ELSE t,
                  m + 1, thr)

\* init(), what the call gives back: the promise of _initDefer, a fresh
\* resolved promise, or the thrown Error('I can't init tree')
initReturns(t) ==
    CASE t.state \in {"off", "initializing"} -> "initDefer"
      [] t.state = "up" -> "resolved"
      [] OTHER -> "throws"

\* deinit(), what the call gives back: a fresh resolved promise or the
\* promise of _deinitDefer
deinitReturns(t) ==
    CASE t.state \in {"off", "error", "down"} -> "resolved"
      [] OTHER -> "deinitDefer"

\* init() without its switch on this.state: the case State.off is run in
\* every state
initInAnyState(t) ==
    [changeState(t, "initializing") EXCEPT
        !.initDefer = "pending", !.modulesToLoad = 0, !.initTask = TRUE]

\* init(), the synchronous part
init(t) ==
    IF t.state = "off"
    THEN [changeState(t, "initializing") EXCEPT
             !.initDefer = "pending", !.modulesToLoad = 0, !.initTask = TRUE]
    ELSE t

----------------------------------------------------------------------------
\* State after construction

\* the field initialisers of the class and of every module entry
FieldInitialisers ==
    /\ state = "off"
    /\ modulesToLoad = 0
    /\ modulesToUnload = 0
    /\ errors = <<>>
    /\ mstate = [m \in Modules |-> "off"]
    /\ dependantsToUnload = [m \in Modules |-> 0]
    /\ initDefer = "none"
    /\ deinitDefer = "none"
    /\ initTask = FALSE
    /\ initRunning = [m \in Modules |-> 0]
    /\ deinitRunning = [m \in Modules |-> 0]
    /\ moduleLog = [m \in Modules |-> <<>>]
    /\ stateLog = <<>>
    /\ started = 0
    /\ stopped = 0
    /\ initEarly = {}
    /\ deinitEarly = {}
    /\ stateErrors = {}
    /\ initDone = {}
    /\ failedIn = [m \in Modules |-> "none"]
    /\ callerTeardown = "none"
    /\ returned = [op |-> "none", value |-> "none"]

\* new DepsTree(modules): deps are the dependency lists of the descriptions,
\* marked the modules described with needed: true
Constructed(deps, marked) ==
    /\ dependencies = [m \in DOMAIN deps |-> SetToSeq(deps[m])]
    /\ dependants = Dependants(deps)
    /\ needed = NeededClosure([m \in DOMAIN deps |-> SetToSeq(deps[m])],
                              [m \in DOMAIN deps |-> m \in marked], 1)
    /\ dependenciesToLoad = [m \in DOMAIN deps |-> Cardinality(deps[m])]
    /\ FieldInitialisers

Init ==
    \E deps \in Descriptions, marked \in SUBSET Names : Constructed(deps, marked)

\* construction with every module described as needed
InitAllNeeded ==
    \E deps \in Descriptions : Constructed(deps, Names)

\* the diamond: module 1 (A) without dependencies, 2 (B) and 3 (C) depending
\* on A only, 4 (D) depending on B and C
Diamond == <<{}, {1}, {1}, {2, 3}>>

\* construction of the diamond with D described as needed, or of any of the
\* module sets of Init
InitDiamond ==
    \/ Constructed(Diamond, {Len(Diamond)})
    \/ Init

\* the constructor after its first loop: the module entries exist, needed is
\* the flag of the description, dependants are still empty; dependency names
\* all exist, cycles and self-dependencies included
InitDescribed ==
    \E deps \in [Names -> SUBSET Names], marked \in SUBSET Names :
        /\ dependencies = [m \in Names |-> SetToSeq(deps[m])]
        /\ dependants = [m \in Names |-> <<>>]
        /\ needed = [m \in Names |-> m \in marked]
        /\ dependenciesToLoad = [m \in Names |-> Cardinality(deps[m])]
        /\ FieldInitialisers

\* the constructor, second and third loop: dependants and the needed closure
Construct ==
    /\ dependants = [m \in Modules |-> <<>>]
    /\ dependants' = Dependants([m \in Modules |-> Range(dependencies[m])])
    /\ needed' = NeededClosure(dependencies, needed, 1)
    /\ UNCHANGED <<state, modulesToLoad, modulesToUnload, errors, dependencies,
                   mstate, dependenciesToLoad, dependantsToUnload, initDefer,
                   deinitDefer, initTask, initRunning, deinitRunning, moduleLog,
                   stateLog, started, stopped, initEarly, deinitEarly, stateErrors,
                   initDone, failedIn, callerTeardown, returned>>

----------------------------------------------------------------------------
\* Jobs

\* a caller invokes init()
CallInit ==
    \E t \in {[init(This) EXCEPT
                  !.returned = [op |-> "init", value |-> initReturns(This)]]} :
        Commit(t)

\* a caller invokes deinit()
CallDeinit ==
    \E thr \in Throws :
        \E t \in {deinit([This EXCEPT
                             !.callerTeardown =
                                 IF state \in {"initializing", "up"} THEN state ELSE @,
                             !.returned =
                                 [op |-> "deinit", value |-> deinitReturns(This)]],
                         thr)} :
            Commit(t)

\* the microtask queued by init() runs
InitTask ==
    /\ initTask
    /\ \E thr \in Throws :
          \E t \in {initLoop([This EXCEPT !.initTask = FALSE], 1, thr)} : Commit(t)

\* the awaited init operation of a module fulfils
InitResolved(name) ==
    /\ initRunning[name] > 0
    /\ \E thr \in Throws :
          \E t \in {moduleInited([This EXCEPT !.initRunning[name] = @ - 1,
                                                !.initDone = @ \cup {name}],
                                   name, thr)} :
              Commit(t)

\* the awaited init operation of a module rejects
InitRejected(name) ==
    /\ initRunning[name] > 0
    /\ \E thr \in Throws :
          \E t \in {initFailed([This EXCEPT !.initRunning[name] = @ - 1], name, thr)} :
              Commit(t)

\* the awaited deinit operation of a module fulfils
DeinitResolved(name) ==
    /\ deinitRunning[name] > 0
    /\ \E thr \in Throws :
          \E t \in {deinitSettled(
                       changeModuleState([This EXCEPT !.deinitRunning[name] = @ - 1],
                                         name, "down"),
                       name, thr)} :
              Commit(t)

\* the awaited deinit operation of a module rejects
DeinitRejected(name) ==
    /\ deinitRunning[name] > 0
    /\ \E thr \in Throws :
          \E t \in {deinitSettled(
                       deinitFailed([This EXCEPT !.deinitRunning[name] = @ - 1],
                                    name, thr),
                       name, thr)} :
              Commit(t)

Next ==
    \/ CallInit
    \/ CallDeinit
    \/ InitTask
    \/ \E name \in Modules : InitResolved(name)
    \/ \E name \in Modules : InitRejected(name)
    \/ \E name \in Modules : DeinitResolved(name)
    \/ \E name \in Modules : DeinitRejected(name)

Spec == Init /\ [][Next]_vars

SpecAllNeeded == InitAllNeeded /\ [][Next]_vars

SpecDiamond == InitDiamond /\ [][Next]_vars

\* no operation fails in the step
NoFailure == errors' = errors

\* runs in which deinit() is not called and no init operation fails
NextSuccessful ==
    \/ CallInit
    \/ InitTask /\ NoFailure
    \/ \E name \in Modules : InitResolved(name) /\ NoFailure

\* the queued microtask runs, and every init operation in flight terminates
\* successfully
SpecSuccessful ==
    /\ Init
    /\ [][NextSuccessful]_vars
    /\ WF_vars(InitTask /\ NoFailure)
    /\ \A name \in Names : WF_vars(InitResolved(name) /\ NoFailure)

SpecConstructor == InitDescribed /\ [][Construct]_vars

----------------------------------------------------------------------------
\* Properties

\* no job is queued and no module operation is awaited: only calls of
\* init() / deinit() can still happen
Quiescent ==
    /\ ~initTask
    /\ \A m \in Modules : initRunning[m] = 0 /\ deinitRunning[m] = 0

\* C1: a module's init operation is invoked only at a moment when every
\* module of its dependency list is in state up.
C1_InitOnlyWhenDependenciesUp ==
    initEarly = {}

\* C2: whenever the tree-level state is up, every needed module is in state up.
C2_TreeUpImpliesNeededUp ==
    state = "up" => \A m \in Modules : needed[m] => mstate[m] = "up"

\* C3: a module that is not needed never has its init or deinit operation
\* invoked and stays in state off forever.
C3_UnneededStaysOff ==
    \A m \in Modules : ~needed[m] => moduleLog[m] = <<>> /\ mstate[m] = "off"

\* C4: if a module's init operation fails while the tree is initializing,
\* then once every module operation in flight has terminated the tree is down
\* and 'stopped' was emitted.
C4_InitFailureReachesDown ==
    (Quiescent /\ \E m \in Modules : failedIn[m] = "initializing")
        => (state = "down" /\ stopped >= 1)

\* C5: a module's deinit operation is started only after every one of its
\* dependants that reached up has completed its own deinit operation.
C5_DeinitAfterDependants ==
    deinitEarly = {}

\* C6: each module's deinit operation is invoked at most once, and exactly
\* once for every module that reached up before the tree reaches down.
C6_DeinitAtMostOnce ==
    /\ \A m \in Modules : DeinitCalls(This, m) <= 1
    /\ state = "down" =>
          \A m \in Modules : "up" \in Range(moduleLog[m]) => DeinitCalls(This, m) = 1

\* C7: whenever the tree-level state is down, every module is off, down or
\* error and no module operation is still in flight.
C7_DownIsClean ==
    state = "down" =>
        \A m \in Modules :
            /\ mstate[m] \in {"off", "down", "error"}
            /\ initRunning[m] = 0
            /\ deinitRunning[m] = 0

AllNeeded == \A m \in Modules : needed[m]

\* C8: when every module is needed, no init operation is ever invoked twice,
\* and when the init() handle resolves every module's init operation has been
\* invoked exactly once and has completed successfully.
C8_AllNeededInitExactlyOnce ==
    AllNeeded =>
        /\ \A m \in Modules : InitCalls(This, m) <= 1
        /\ initDefer = "resolved" =>
              \A m \in Modules :
                  /\ InitCalls(This, m) = 1
                  /\ m \in initDone
                  /\ "up" \in Range(moduleLog[m])

\* every module is needed, one of them has two dependencies, and the init()
\* handle has resolved
C8_Witness ==
    /\ AllNeeded
    /\ initDefer = "resolved"
    /\ \E m \in Modules : Len(dependencies[m]) = 2
    /\ \A m \in Modules : InitCalls(This, m) = 1

\* C9: after deinit() is called on a tree in state up, once every module
\* operation has terminated the tree is down and every module that was up
\* ended in down or error.
C9_DeinitFromUpReachesDown ==
    (Quiescent /\ callerTeardown = "up") =>
        /\ state = "down"
        /\ \A m \in Modules :
              "up" \in Range(moduleLog[m]) => mstate[m] \in {"down", "error"}

IsPrefix(p, q) == Len(p) <= Len(q) /\ SubSeq(q, 1, Len(p)) = p

\* C10: the module-state notifications of a module whose init operation
\* completes successfully are initializing, up and then, on teardown,
\* deinitializing, down: it never skips up and never enters deinitializing twice.
C10_SuccessfulModuleSequence ==
    \A m \in initDone :
        m \notin Range(errors) =>
            IsPrefix(moduleLog[m], <<"initializing", "up", "deinitializing", "down">>)

\* the state and counters of the modules, and the operations in flight
moduleFields ==
    <<mstate, dependenciesToLoad, dependantsToUnload, modulesToLoad,
      modulesToUnload, initTask, initRunning, deinitRunning, moduleLog, errors>>

\* C11: deinit() called while the tree is off moves the tree to down, returns
\* an already settled handle, invokes no module operation and leaves every
\* module off with its counters unchanged.
C11_DeinitWhileOff ==
    [][(state = "off" /\ returned'.op = "deinit") =>
          /\ state' = "down"
          /\ returned'.value = "resolved"
          /\ UNCHANGED moduleFields
          /\ \A m \in Modules : mstate'[m] = "off" /\ moduleLog'[m] = <<>>
          /\ stopped' = stopped]_vars

\* deinit() was called on a tree that was off
C11_Witness ==
    /\ stateLog = <<"down">>
    /\ returned = [op |-> "deinit", value |-> "resolved"]
    /\ \E m \in Modules : needed[m]

C13_NeededIsClosure ==
    [][\A m \in Modules :
          needed'[m] <=>
              m \in Reach([x \in Modules |-> Range(dependencies[x])],
                          {x \in Modules : needed[x]}, Cardinality(Modules))]_vars

\* a constructed module set with a dependency cycle in which some modules are
\* needed and some are not
C13_Witness ==
    /\ ~Acyclic([x \in Modules |-> Range(dependencies[x])])
    /\ \E m \in Modules : dependants[m] # <<>>
    /\ \E m \in Modules : needed[m] /\ dependencies[m] # <<>>
    /\ \E m \in Modules : ~needed[m]

\* the tree was constructed from the diamond with D described as needed
IsDiamond ==
    /\ dependencies = [m \in DOMAIN Diamond |-> SetToSeq(Diamond[m])]
    /\ needed[Len(Diamond)]

\* the module's state changes to up in this step
ComesUp(m) == Count(moduleLog'[m], "up") > Count(moduleLog[m], "up")

C15_FailureForcesTeardown ==
    [][/\ \A name \in Modules :
             (InitRejected(name) \/ DeinitRejected(name)) =>
                 /\ Len(errors') > Len(errors)
                 /\ errors'[Len(errors) + 1] = name
                 /\ mstate'[name] = "error"
       /\ IsPrefix(errors, errors')
       /\ \A i \in (Len(errors) + 1)..Len(errors') : mstate'[errors'[i]] = "error"
       /\ errors' # <<>> => state' \in {"deinitializing", "down"}]_vars

\* the tree is down after the init of one module and the deinit of another
\* module have failed
C15_Witness ==
    /\ state = "down"
    /\ \E m \in Range(errors) : failedIn[m] # "none"
    /\ \E m \in Range(errors) : failedIn[m] = "none"
    /\ \A m \in Range(errors) : mstate[m] = "error"

\* the module's init completed successfully after teardown had begun: its
\* deinit was invoked without the module having been up
TornDownFromInit(log) ==
    \E i \in 1..(Len(log) - 1) : log[i] = "initializing" /\ log[i + 1] = "deinitializing"

\* C16: when the in-flight init of a module completes successfully after
\* teardown has begun, the tree has not entered down and the module's deinit
\* is invoked (in that step); and when the tree enters down, the deinit of
\* every such module has completed.
C16_InFlightInitTornDown ==
    [][/\ \A name \in Modules :
             (InitResolved(name) /\ "deinitializing" \in Range(stateLog)) =>
                 /\ state = "deinitializing"
                 /\ Count(moduleLog'[name], "deinitializing")
                        = Count(moduleLog[name], "deinitializing") + 1
       /\ (state # "down" /\ state' = "down") =>
             \A m \in Modules :
                 TornDownFromInit(moduleLog'[m]) =>
                     deinitRunning'[m] = 0 /\ mstate'[m] \in {"down", "error"}]_vars

\* C17: from the step in which the init of a module fails while the handle
\* of init() is pending (the tree has not reached up), the handle stays
\* pending, neither resolved nor rejected, in every later step; and once the
\* init of a module has failed the tree is never up.
C17_InitFailureLeavesHandlePending ==
    [][(\E m \in Modules : failedIn'[m] # "none") =>
          /\ initDefer = "pending" => initDefer' = "pending"
          /\ state' # "up"]_vars

\* the tree has rolled back to down after an init failure during
\* initializing, and the handle of init() is still pending
C17_Witness ==
    /\ state = "down"
    /\ \E m \in Modules : failedIn[m] = "initializing"
    /\ initDefer = "pending"
    /\ "up" \notin Range(stateLog)

\* C18: when every init operation terminates successfully and deinit() is
\* not called, a tree with at least one needed module that init() has put in
\* initializing eventually is up with the handle of init() resolved.
C18_InitEventuallyUp ==
    (state = "initializing" /\ \E m \in Modules : needed[m])
        ~> (state = "up" /\ initDefer = "resolved")

\* the tree is up with the handle resolved, after a chain of three modules
\* each waiting for the one before
C18_Witness ==
    /\ state = "up"
    /\ initDefer = "resolved"
    /\ started = 1
    /\ \E m \in Modules :
          /\ mstate[m] = "up"
          /\ \E d \in Range(dependencies[m]) : dependencies[d] # <<>>

\* C19: a step that invokes the deinit of a module is not taken while the
\* init of one of the module's dependants is in flight (in flight before and
\* after the step, the dependant being in state initializing).
C19_NoDeinitUnderInitializingDependant ==
    [][\A m \in Modules :
          Count(moduleLog'[m], "deinitializing") > Count(moduleLog[m], "deinitializing") =>
              \A d \in Range(dependants[m]) :
                  ~(/\ initRunning[d] > 0 /\ mstate[d] = "initializing"
                    /\ initRunning'[d] > 0 /\ mstate'[d] = "initializing")]_vars

\* position of a tree-level state in the order
\* off < initializing < up < deinitializing < down (error has none)
Rank(st) ==
    CASE st = "off" -> 0
      [] st = "initializing" -> 1
      [] st = "up" -> 2
      [] st = "deinitializing" -> 3
      [] st = "down" -> 4
      [] OTHER -> -1

\* C20: the tree-level state is never error, every change of it moves it
\* strictly forward in the order off < initializing < up < deinitializing <
\* down, every entry in the sequence of states set by _changeState is
\* strictly later in that order than the entry before it (no state is set
\* again), and 'started' and 'stopped' are each emitted at most once.
C20_StateStrictlyForward ==
    /\ state # "error"
    /\ \A i \in 1..Len(stateLog) : Rank(stateLog[i]) > 0
    /\ \A i \in 1..(Len(stateLog) - 1) : Rank(stateLog[i]) < Rank(stateLog[i + 1])
    /\ started <= 1
    /\ stopped <= 1

====
